---- MODULE Spec2Model ----
(***************************************************************************)
(* Model of internal/native/client.go: the NeoFS load client of xk6-neofs. *)
(* Client.Put, Client.Get, Client.Onsite, PreparedObject.Put, the shared   *)
(* put() transfer loop, SetBufferSize and parseNetworkInfo.                *)
(*                                                                         *)
(* The store, the SDK streams and the metrics collector are the            *)
(* environment: every call into them is one step whose outcome is chosen   *)
(* nondeterministically among the outcomes the call can produce.           *)
(***************************************************************************)
EXTENDS Integers, Sequences, FiniteSets, TLC

VARIABLES
    bufsize,    \* Client.bufsize
    tmpl,       \* Client.tok, the base session token template
    prepared,   \* the PreparedObject held by the script: <<>> or <<object>>
    inv,        \* per caller: the invocation in progress or just finished
    network,    \* the store: what cli.NetworkInfo answers (fixed during a run)
    parseOut    \* SpecParse: <<>> or <<what parseNetworkInfo returned>>

vars == <<bufsize, tmpl, prepared, inv, network, parseOut>>

(***************************************************************************)
(* Bounds of the model.                                                    *)
(***************************************************************************)
MaxPayloadLen == 3      \* longest payload, in bytes
MaxParams == 3          \* longest network parameter list

(***************************************************************************)
(* Program constants.                                                      *)
(***************************************************************************)
defaultBufferSize == 65536
MaxBoolBytes == 32      \* stackitem: longest byte string TryBool decodes

Procs == {"main", "other"}
Main == "main"

ErrNil == "<nil>"

Min(a, b) == IF a < b THEN a ELSE b

(***************************************************************************)
(* uint64 and int.  TLC's integers are 32 bits wide, so a 64-bit value is  *)
(* kept as its 8 bytes, most significant first.  int is 64 bits wide       *)
(* (amd64, arm64): int(x) keeps the bits of x and reads the top bit as the *)
(* sign.                                                                   *)
(***************************************************************************)
Zero64 == <<0, 0, 0, 0, 0, 0, 0, 0>>

\* buf := make([]byte, 8); copy(buf[:], value)
CopyTo8(value) == [i \in 1..8 |-> IF i <= Len(value) THEN value[i] ELSE 0]

\* binary.LittleEndian.Uint64(buf): buf[0] is the least significant byte
LittleEndianUint64(buf) == [i \in 1..8 |-> buf[9 - i]]

\* uint64(ln) for the small lengths of the model
Uint64OfNat(n) == <<0, 0, 0, 0, 0, 0, 0, n>>

\* a < b on uint64
U64Less(a, b) ==
    \E i \in 1..8 : a[i] < b[i] /\ \A j \in 1..(i - 1) : a[j] = b[j]

\* int(x) for a uint64 x: two's complement reinterpretation
IntOfUint64(x) == [neg |-> x[1] >= 128, bits |-> x]

\* an int holding a length
IntOfNat(n) == [neg |-> FALSE, bits |-> Uint64OfNat(n)]

\* a > b on int
IntGreater(a, b) ==
    IF a.neg # b.neg THEN b.neg ELSE U64Less(b.bits, a.bits)

(***************************************************************************)
(* parseNetworkInfo                                                        *)
(***************************************************************************)
ErrMissing == "network configuration misses max object size value"
ErrTooBig == "too big byte string"
ErrNetwork == "network info unavailable"

U63 == <<0, 0, 0, 0, 0, 0, 0, 128>>                 \* 2^63, little-endian
TooBigBytes == [i \in 1..(MaxBoolBytes + 1) |-> 0]  \* not decodable as a boolean

ParamEntries ==
    {[key |-> "MaxObjectSize", value |-> v] : v \in {<<>>, <<2>>, U63}}
    \cup {[key |-> "HomomorphicHashingDisabled", value |-> v] :
             v \in {<<>>, <<1>>, TooBigBytes}}
    \cup {[key |-> "EpochDuration", value |-> <<5>>]}

ParamLists == UNION {[1..n -> ParamEntries] : n \in 0..MaxParams}

\* stackitem.NewByteArray(value).TryBool()
TryBool(value) ==
    IF Len(value) > MaxBoolBytes
    THEN [val |-> FALSE, err |-> ErrTooBig]
    ELSE [val |-> \E i \in 1..Len(value) : value[i] # 0, err |-> ErrNil]

\* ParamCallback that never asks the iteration to stop
ParamCallbackNoStop(parameter, st) ==
    CASE parameter.key = "MaxObjectSize" ->
            [stop |-> FALSE,
             st |-> [st EXCEPT !.maxObjSize = LittleEndianUint64(CopyTo8(parameter.value)),
                               !.err = ErrNil]]
      [] parameter.key = "HomomorphicHashingDisabled" ->
            LET b == TryBool(parameter.value) IN
            [stop |-> FALSE,
             st |-> [st EXCEPT !.hhDisabled = b.val, !.err = b.err]]
      [] OTHER -> [stop |-> FALSE, st |-> st]

\* the closure handed to IterateParameters; stop is its return value
ParamCallback(parameter, st) ==
    CASE parameter.key = "MaxObjectSize" ->
            [stop |-> FALSE,
             st |-> [st EXCEPT !.maxObjSize = LittleEndianUint64(CopyTo8(parameter.value)),
                               !.err = ErrNil]]
      [] parameter.key = "HomomorphicHashingDisabled" ->
            LET b == TryBool(parameter.value) IN
            [stop |-> b.err # ErrNil,
             st |-> [st EXCEPT !.hhDisabled = b.val, !.err = b.err]]
      [] OTHER -> [stop |-> FALSE, st |-> st]

\* NetworkConfig().IterateParameters(f): breaks when f returns true
RECURSIVE IterateParameters(_, _, _)
IterateParameters(params, i, st) ==
    IF i > Len(params) THEN st
    ELSE LET r == ParamCallback(params[i], st) IN
         IF r.stop THEN r.st ELSE IterateParameters(params, i + 1, r.st)

parseNetworkInfo(ni) ==
    IF ni.err # ErrNil
    THEN [maxObjSize |-> Zero64, epoch |-> 0, hhDisabled |-> FALSE, err |-> ni.err]
    ELSE LET st == IterateParameters(ni.params, 1,
                       [maxObjSize |-> Zero64, hhDisabled |-> FALSE, err |-> ErrMissing])
         IN [maxObjSize |-> st.maxObjSize, epoch |-> ni.epoch,
             hhDisabled |-> st.hhDisabled, err |-> st.err]

(***************************************************************************)
(* Values: identifiers, keys, session tokens, object headers.              *)
(***************************************************************************)
Containers == {"c1", "c2"}
Objects == {"o1"}
Malformed == "?"                      \* a string that is no identifier
ContainerInputs == Containers \cup {Malformed}
ObjectInputs == Objects \cup {Malformed}

\* cid.ID.DecodeString, oid.ID.DecodeString
DecodeString(s) == [ok |-> s \in Containers \cup Objects, id |-> s]

Key == "k1"                           \* Client.key
OwnerOf(key) == <<"owner", key>>      \* user.IDFromKey

Payload(n) == [i \in 1..n |-> i]
Payloads == {Payload(n) : n \in 0..MaxPayloadLen}

\* the attribute maps a script passes (headers map[string]string), as sets of
\* <<key, value>> pairs with distinct keys
AttrMaps ==
    {{}, {<<"a", "1">>}, {<<"a", "2">>}, {<<"a", "1">>, <<"b", "2">>}}

\* the orders in which "for k, v := range headers" can visit a map
RangeOrders(m) ==
    {s \in [1..Cardinality(m) -> m] : \A i, j \in DOMAIN s : i # j => s[i] # s[j]}

\* session.Object: the verb and address it is bound to, and its signature,
\* which covers the binding as it was when Sign ran
BaseToken == [verb |-> "unset", cnr |-> "", obj |-> "", sig |-> <<>>]
ForVerb(t, verb) == [t EXCEPT !.verb = verb]
ApplyTo(t, cnr, obj) == [t EXCEPT !.cnr = cnr, !.obj = obj]
Sign(t, key) ==
    [t EXCEPT !.sig = <<[key |-> key, verb |-> t.verb, cnr |-> t.cnr, obj |-> t.obj]>>]

\* the header of an object.Object; ZeroHdr is the header of "var o object.Object"
ZeroHdr ==
    [version |-> "", type |-> "regular", cnr |-> "", owner |-> <<>>, size |-> 0,
     epoch |-> 0, sha |-> <<>>, hh |-> <<>>, attrs |-> <<>>]

\* sha256.Sum256, tz.Sum and object.CalculateID are collision-free hashes:
\* each digest is modelled by the data it was computed over
SHA256(data) == <<"sha256", data>>
TZHash(data) == <<"tz", data>>
CalculateID(hdr) == [over |-> hdr]
\* object.CalculateAndSetSignature signs the identifier
SignatureOf(key, id) == [key |-> key, over |-> id]

(***************************************************************************)
(* Invocations.  inv[p] is the handler caller p is running, or the one it  *)
(* ran last (pc = "done"), with its locals, its stream, its result and the  *)
(* metrics it reported: the collector is outside the program, what the     *)
(* program does is to report, and reports lists the reports in order.      *)
(***************************************************************************)
NoStream ==
    [tok |-> <<>>,        \* the session token the stream was opened within
     hdr |-> <<>>,        \* the header the store accepted
     chunks |-> <<>>,     \* the payload chunks the store accepted
     reads |-> <<>>,      \* GET: the lengths of the reads
     served |-> 0,        \* GET: length of the payload the store holds
     remaining |-> 0,     \* GET: payload bytes the store has still to serve
     cancelled |-> FALSE, \* the caller's context was cancelled
     log |-> <<>>]        \* the calls made on the stream, in order

NoResult == [kind |-> "none", objectID |-> <<>>, error |-> ""]

NoInv ==
    [op |-> "none", pc |-> "done",
     cnr |-> "", oid |-> "", headers |-> {}, payload |-> <<>>, size |-> 0,
     tok |-> <<>>,        \* tok: nil or the scoped token
     hdr |-> ZeroHdr,     \* Client.Put: the header of the local object o
     id |-> <<>>, sig |-> <<>>,   \* identifier and signature of the local object
     bufSize |-> 0, off |-> 0, n |-> 0, sz |-> 0,
     stream |-> NoStream,
     prev |-> <<>>,       \* PreparedObject.Put: the Put before it on the same object
     seen |-> <<>>,       \* PreparedObject.Put: the header of p.hdr as the call found it
     reports |-> <<>>,
     result |-> NoResult]

Idle(p) == inv[p].pc = "done"

Panic(rec, msg) ==
    [rec EXCEPT !.pc = "done", !.result = [kind |-> "panic", objectID |-> <<>>, error |-> msg]]
Failed(rec, msg) ==
    [rec EXCEPT !.pc = "done", !.result = [kind |-> "fail", objectID |-> <<>>, error |-> msg]]
Succeeded(rec, id) ==
    [rec EXCEPT !.pc = "done", !.result = [kind |-> "ok", objectID |-> id, error |-> ""]]

\* stats.Report, stats.ReportDataSent, stats.ReportDataReceived
Reported(rec, metric, value) ==
    [rec EXCEPT !.reports = Append(@, [metric |-> metric, value |-> value])]
Logged(rec, event) == [rec EXCEPT !.stream.log = Append(@, event)]

\* a netmap.NetworkParameter
NetParam(key, value) == [key |-> key, value |-> value]

\* the network configurations of the store in the runs of Spec and SpecOnsite:
\* the query fails; a maximum of 1; a maximum of 2^63; homomorphic hashing
\* disabled and a maximum of 2; no maximum at all
NetworkInfos ==
    {[err |-> ErrNetwork, epoch |-> 0, params |-> <<>>],
     [err |-> ErrNil, epoch |-> 7, params |-> <<NetParam("MaxObjectSize", <<1>>)>>],
     [err |-> ErrNil, epoch |-> 7, params |-> <<NetParam("MaxObjectSize", U63)>>],
     [err |-> ErrNil, epoch |-> 8,
      params |-> <<NetParam("HomomorphicHashingDisabled", <<1>>),
                   NetParam("MaxObjectSize", <<2>>)>>],
     [err |-> ErrNil, epoch |-> 8,
      params |-> <<NetParam("HomomorphicHashingDisabled", <<>>)>>]}

TypeOK ==
    /\ bufsize \in Nat
    /\ Len(prepared) <= 1
    /\ \A p \in Procs : inv[p].pc = "done" \/ inv[p].op # "none"

\* a Client as its struct is before SetBufferSize ran (bufsize is the zero
\* value), no object prepared, no call made
Init ==
    /\ bufsize = 0
    /\ tmpl = BaseToken
    /\ prepared = <<>>
    /\ inv = [p \in Procs |-> NoInv]
    /\ network \in NetworkInfos
    /\ parseOut = <<>>

(***************************************************************************)
(* Client.SetBufferSize                                                    *)
(***************************************************************************)
BufferSizes == {-1, 0, 1, 2}

\* the sizes tried in SpecOnsite, whose claims do not depend on the chunking
OnsiteBufferSizes == {-1, 1}

\* NewBufferSize without the default: a size of 0 is stored as it is
NewBufferSizeNoDefault(size) == size

\* the value SetBufferSize stores for a size that is not negative
NewBufferSize(size) == IF size = 0 THEN defaultBufferSize ELSE size

SetBufferSize(p, size) ==
    /\ Idle(p)
    /\ LET rec == [NoInv EXCEPT !.op = "SetBufferSize", !.size = size] IN
       IF size < 0
       THEN /\ inv' = [inv EXCEPT ![p] = Panic(rec, "buffer size must be positive")]
            /\ UNCHANGED bufsize
       ELSE /\ inv' = [inv EXCEPT ![p] = Succeeded(rec, <<>>)]
            /\ bufsize' = NewBufferSize(size)
    /\ UNCHANGED <<tmpl, prepared, network, parseOut>>

(***************************************************************************)
(* put(): the transfer loop shared by Client.Put and PreparedObject.Put.   *)
(***************************************************************************)
ErrOpen == "stream open failed"
ErrStore == "store failure"
ErrCancelled == "context canceled"
ErrNilDeref == "runtime error: invalid memory address or nil pointer dereference"

\* what objectWriter.Close / objectReader.Close can return as error: the
\* context error once the call was cancelled, else nil or a transport error,
\* whatever the calls before it returned (a failure status of the store travels
\* in the response, not in the error)
CloseErrors(stream) ==
    IF stream.cancelled THEN {ErrCancelled} ELSE {ErrNil, ErrStore}

\* ReadNext with a reader that is exhausted after its first read
ReadNextOnce(rec) ==
    LET n == IF rec.off > 0 THEN 0 ELSE Min(rec.bufSize, Len(rec.payload) - rec.off) IN
    [rec EXCEPT !.n = n, !.off = @ + n, !.pc = IF n > 0 THEN "chunk" ELSE "close"]

\* n, _ := rdr.Read(buf) and the loop test n > 0
ReadNext(rec) ==
    LET n == Min(rec.bufSize, Len(rec.payload) - rec.off) IN
    [rec EXCEPT !.n = n, !.off = @ + n, !.pc = IF n > 0 THEN "chunk" ELSE "close"]

\* buf[:n], the bytes the last rdr.Read put in buf
Chunk(rec) == SubSeq(rec.payload, rec.off - rec.n + 1, rec.off)

\* the first lines of put(): buf, rdr, sz and the attempted counter
EnterPut(rec, tok) ==
    Reported([rec EXCEPT !.tok = tok, !.off = 0, !.n = 0, !.sz = Len(rec.payload),
                         !.pc = "open"],
             "objPutTotal", 1)

\* Client.Put after put() returned (resp, err)
ClientPutReturn(rec, resp, err) ==
    IF err # ErrNil THEN Failed(rec, err)
    ELSE IF resp = <<>> THEN Panic(rec, ErrNilDeref)   \* resp.ReadStoredObjectID on nil
    ELSE Succeeded(rec, <<resp[1].id>>)

\* PreparedObject.Put after put() returned (_, err)
PreparedPutReturn(rec, resp, err) ==
    IF err # ErrNil THEN Failed(rec, err) ELSE Succeeded(rec, rec.id)

PutReturn(rec, resp, err) ==
    IF rec.op = "Put" THEN ClientPutReturn(rec, resp, err)
    ELSE PreparedPutReturn(rec, resp, err)

\* *hdr as WriteHeader sees it: the struct copy obj of PreparedObject.Put
\* shares the header of the prepared object, Client.Put owns its header
HeaderOf(p) ==
    IF inv[p].op = "PPut" THEN prepared[1].hdr ELSE inv[p].hdr

\* the identifier the store reports for the object it stored
StoredID(stream) ==
    IF stream.hdr[1].id # <<>> THEN stream.hdr[1].id[1]
    ELSE CalculateID(stream.hdr[1].hdr)

InPut(p) == inv[p].op \in {"Put", "PPut"}

\* PutFailed that counts the failure twice
PutFailedTwice(rec) == Reported(Reported(rec, "objPutFails", 1), "objPutFails", 1)

\* the failure paths of put(): count the failure
PutFailed(rec) == Reported(rec, "objPutFails", 1)

\* cli.ObjectPutInit and objectWriter.WithinSession
ObjectPutInit(p, ok) ==
    /\ InPut(p) /\ inv[p].pc = "open"
    /\ IF ok
       THEN /\ inv' = [inv EXCEPT ![p] =
                   [@ EXCEPT !.stream = [NoStream EXCEPT !.tok = inv[p].tok,
                                                         !.log = <<"open">>],
                             !.pc = "header"]]
       ELSE /\ inv' = [inv EXCEPT ![p] = PutReturn(PutFailed(@), <<>>, ErrOpen)]
    /\ UNCHANGED <<bufsize, tmpl, prepared, network, parseOut>>

\* HeaderRejected that returns without closing the stream
HeaderRejectedNoClose(rec) == PutReturn(PutFailed(Logged(rec, "header-")), <<>>, ErrStore)

\* what put() does when WriteHeader returned false
HeaderRejected(rec) == [PutFailed(Logged(rec, "header-")) EXCEPT !.pc = "closeHdr"]

\* objectWriter.WriteHeader(*hdr), then the first rdr.Read
WriteHeader(p, ok) ==
    /\ InPut(p) /\ inv[p].pc = "header"
    /\ IF ok /\ ~inv[p].stream.cancelled
       THEN /\ inv' = [inv EXCEPT ![p] =
                   ReadNext(Logged(
                       [@ EXCEPT !.stream.hdr =
                            <<[hdr |-> HeaderOf(p), id |-> inv[p].id, sig |-> inv[p].sig]>>],
                       "header+"))]
       ELSE /\ inv' = [inv EXCEPT ![p] = HeaderRejected(@)]
    /\ UNCHANGED <<bufsize, tmpl, prepared, network, parseOut>>

\* ChunkRejected without the break: the loop goes on to the next chunk
ChunkRejectedContinue(rec) == ReadNext(Logged(rec, "chunk-"))

\* what the loop does when WritePayloadChunk returned false: break
ChunkRejected(rec) == [Logged(rec, "chunk-") EXCEPT !.pc = "close"]

\* one turn of the loop: objectWriter.WritePayloadChunk(buf[:n]), rdr.Read
WritePayloadChunk(p, ok) ==
    /\ InPut(p) /\ inv[p].pc = "chunk"
    /\ IF ok /\ ~inv[p].stream.cancelled
       THEN inv' = [inv EXCEPT ![p] =
                ReadNext(Logged([@ EXCEPT !.stream.chunks = Append(@, Chunk(inv[p]))],
                                "chunk+"))]
       ELSE inv' = [inv EXCEPT ![p] = ChunkRejected(@)]
    /\ UNCHANGED <<bufsize, tmpl, prepared, network, parseOut>>

\* put() after objectWriter.Close returned (resp, err); afterHeader says
\* whether this is the close that follows a rejected header
PutClosed(rec, afterHeader, err) ==
    IF afterHeader THEN PutReturn(rec, <<>>, err)
    ELSE IF err # ErrNil THEN PutReturn(PutFailed(rec), <<>>, err)
    ELSE PutReturn(Reported(Reported(rec, "dataSent", rec.sz), "objPutDuration", 1),
                   <<[id |-> StoredID(rec.stream)]>>, ErrNil)

\* objectWriter.Close and the return of put() to its caller
ClosePut(p, err) ==
    /\ InPut(p) /\ inv[p].pc \in {"close", "closeHdr"}
    /\ err \in CloseErrors(inv[p].stream)
    /\ inv' = [inv EXCEPT ![p] =
            PutClosed(Logged(@, "close"), inv[p].pc = "closeHdr", err)]
    /\ UNCHANGED <<bufsize, tmpl, prepared, network, parseOut>>

\* the caller's context (vu.Context()) is cancelled while a stream is open
Cancel(p) ==
    /\ inv[p].pc \in {"header", "chunk", "close", "closeHdr",
                      "gheader", "gread", "gclose", "gcloseHdr"}
    /\ ~inv[p].stream.cancelled
    /\ inv' = [inv EXCEPT ![p] = Logged([@ EXCEPT !.stream.cancelled = TRUE], "cancel")]
    /\ UNCHANGED <<bufsize, tmpl, prepared, network, parseOut>>

(***************************************************************************)
(* Client.Put                                                              *)
(***************************************************************************)
\* PutToken with the token signed before it is bound to the address
PutTokenSignedFirst(cnr) == ApplyTo(Sign(ForVerb(tmpl, "PUT"), Key), cnr, "")

\* tok := c.tok; tok.ForVerb(VerbObjectPut); tok.ApplyTo(addr); tok.Sign(c.key)
PutToken(cnr) == Sign(ApplyTo(ForVerb(tmpl, "PUT"), cnr, ""), Key)

\* Client.Put up to the first network call of put()
PutBegin(p, cid, headers, payload, signOK) ==
    /\ Idle(p)
    /\ LET rec == [NoInv EXCEPT !.op = "Put", !.cnr = cid, !.headers = headers,
                                !.payload = payload, !.bufSize = bufsize] IN
       IF ~DecodeString(cid).ok
       THEN inv' = [inv EXCEPT ![p] = Panic(rec, "malformed container id")]
       ELSE IF ~signOK
       THEN inv' = [inv EXCEPT ![p] = Panic(rec, "token signing failed")]
       ELSE /\ \E attrs \in RangeOrders(headers) :
                 inv' = [inv EXCEPT ![p] =
                    EnterPut([rec EXCEPT !.hdr = [ZeroHdr EXCEPT !.cnr = cid,
                                                                 !.owner = OwnerOf(Key),
                                                                 !.attrs = attrs]],
                             <<PutToken(cid)>>)]
    /\ UNCHANGED <<bufsize, tmpl, prepared, network, parseOut>>

(***************************************************************************)
(* Client.Get                                                              *)
(***************************************************************************)
\* tok := c.tok; tok.ForVerb(VerbObjectGet); tok.ApplyTo(addr); tok.Sign(c.key)
GetToken(cnr, obj) == Sign(ApplyTo(ForVerb(tmpl, "GET"), cnr, obj), Key)

GetFailed(rec) == Reported(rec, "objGetFails", 1)

\* Client.Get up to ObjectGetInit
GetBegin(p, cid, oid, signOK) ==
    /\ Idle(p)
    /\ LET rec == [NoInv EXCEPT !.op = "Get", !.cnr = cid, !.oid = oid,
                                !.bufSize = bufsize] IN
       IF ~DecodeString(cid).ok
       THEN inv' = [inv EXCEPT ![p] = Panic(rec, "malformed container id")]
       ELSE IF ~DecodeString(oid).ok
       THEN inv' = [inv EXCEPT ![p] = Panic(rec, "malformed object id")]
       ELSE IF ~signOK
       THEN inv' = [inv EXCEPT ![p] = Panic(rec, "token signing failed")]
       ELSE /\ inv' = [inv EXCEPT ![p] =
                   Reported([rec EXCEPT !.tok = <<GetToken(cid, oid)>>, !.pc = "gopen"],
                            "objGetTotal", 1)]
    /\ UNCHANGED <<bufsize, tmpl, prepared, network, parseOut>>

\* c.cli.ObjectGetInit; served is the length of the payload the store holds
ObjectGetInit(p, ok, served) ==
    /\ inv[p].op = "Get" /\ inv[p].pc = "gopen"
    /\ IF ok
       THEN /\ inv' = [inv EXCEPT ![p] =
                   [@ EXCEPT !.stream = [NoStream EXCEPT !.tok = inv[p].tok,
                                                         !.served = served,
                                                         !.remaining = served,
                                                         !.log = <<"open">>],
                             !.pc = "gheader"]]
       ELSE /\ inv' = [inv EXCEPT ![p] = Failed(GetFailed(@), ErrOpen)]
    /\ UNCHANGED <<bufsize, tmpl, prepared, network, parseOut>>

\* objectReader.ReadHeader(&o)
ReadHeader(p, ok) ==
    /\ inv[p].op = "Get" /\ inv[p].pc = "gheader"
    /\ IF ok /\ ~inv[p].stream.cancelled
       THEN /\ inv' = [inv EXCEPT ![p] = [Logged(@, "header+") EXCEPT !.pc = "gread"]]
       ELSE /\ inv' = [inv EXCEPT ![p] =
                   [GetFailed(Logged(@, "header-")) EXCEPT !.pc = "gcloseHdr"]]
    /\ UNCHANGED <<bufsize, tmpl, prepared, network, parseOut>>

\* AfterRead that keeps the length of the last read instead of the sum
AfterReadLast(rec, n) ==
    [rec EXCEPT !.n = n, !.sz = n, !.stream.remaining = @ - n,
                !.stream.reads = Append(@, n), !.stream.log = Append(@, "read"),
                !.pc = IF n > 0 THEN "gread" ELSE "gclose"]

\* Get after n, _ := objectReader.Read(buf): the loop test and sz += n
AfterRead(rec, n) ==
    [rec EXCEPT !.n = n, !.sz = @ + n, !.stream.remaining = @ - n,
                !.stream.reads = Append(@, n), !.stream.log = Append(@, "read"),
                !.pc = IF n > 0 THEN "gread" ELSE "gclose"]

\* n, _ := objectReader.Read(buf): the next bytes of the payload, as many as
\* buf takes, or nothing when the read fails
Read(p, ok) ==
    /\ inv[p].op = "Get" /\ inv[p].pc = "gread"
    /\ inv' = [inv EXCEPT ![p] =
            AfterRead(@, IF ok /\ ~inv[p].stream.cancelled
                         THEN Min(inv[p].bufSize, inv[p].stream.remaining) ELSE 0)]
    /\ UNCHANGED <<bufsize, tmpl, prepared, network, parseOut>>

\* Get after objectReader.Close returned err
GetClosed(rec, afterHeader, err) ==
    IF afterHeader
    THEN IF err = ErrNil THEN Panic(rec, ErrNilDeref)    \* err.Error() on a nil error
         ELSE Failed(rec, err)
    ELSE IF err # ErrNil THEN Failed(GetFailed(rec), err)
    ELSE Succeeded(Reported(Reported(rec, "objGetDuration", 1), "dataReceived", rec.sz),
                   <<>>)

\* objectReader.Close and the return of Get
CloseGet(p, err) ==
    /\ inv[p].op = "Get" /\ inv[p].pc \in {"gclose", "gcloseHdr"}
    /\ err \in CloseErrors(inv[p].stream)
    /\ inv' = [inv EXCEPT ![p] =
            GetClosed(Logged(@, "close"), inv[p].pc = "gcloseHdr", err)]
    /\ UNCHANGED <<bufsize, tmpl, prepared, network, parseOut>>

(***************************************************************************)
(* Client.Onsite                                                           *)
(***************************************************************************)
ErrTooLarge == "payload size is bigger than network limit"

\* ln > int(maxObjectSize)
TooLarge(ln, maxObjectSize) == IntGreater(IntOfNat(ln), IntOfUint64(maxObjectSize))

\* the header Onsite builds (obj := object.New() and the setters)
OnsiteHeader(cid, data, epoch, hhDisabled) ==
    [version |-> "current", type |-> "regular", cnr |-> cid, owner |-> OwnerOf(Key),
     size |-> Len(data), epoch |-> epoch, sha |-> SHA256(data),
     hh |-> IF hhDisabled THEN <<>> ELSE TZHash(data), attrs |-> <<>>]

\* the PreparedObject Onsite returns; hdr is the header its struct field hdr
\* points to, id and sig the identifier and signature fields of that struct
NewPrepared(cid, data, net) ==
    [bufsize |-> bufsize, key |-> Key, payload |-> data,
     hdr |-> OnsiteHeader(cid, data, net.epoch, net.hhDisabled),
     id |-> <<>>, sig |-> <<>>]

Onsite(p, cid, payload) ==
    /\ Idle(p)
    /\ \A q \in Procs : inv[q].op = "PPut" => Idle(q)
    /\ LET rec == [NoInv EXCEPT !.op = "Onsite", !.cnr = cid, !.payload = payload]
           net == parseNetworkInfo(network) IN
       IF net.err # ErrNil
       THEN inv' = [inv EXCEPT ![p] = Panic(rec, net.err)] /\ UNCHANGED prepared
       ELSE IF TooLarge(Len(payload), net.maxObjSize)
       THEN inv' = [inv EXCEPT ![p] = Panic(rec, ErrTooLarge)] /\ UNCHANGED prepared
       ELSE IF ~DecodeString(cid).ok
       THEN inv' = [inv EXCEPT ![p] = Panic(rec, "malformed container id")]
            /\ UNCHANGED prepared
       ELSE /\ inv' = [inv EXCEPT ![p] = Succeeded(rec, <<>>)]
            /\ prepared' = <<NewPrepared(cid, payload, net)>>
    /\ UNCHANGED <<bufsize, tmpl, network, parseOut>>

(***************************************************************************)
(* PreparedObject.Put                                                      *)
(***************************************************************************)
ErrID == "identifier computation failed"
ErrSig == "signature computation failed"

\* what a PreparedObject.Put remembers of the PreparedObject.Put that ran
\* before it on the same prepared object
Previous(rec) ==
    IF rec.op = "PPut" /\ rec.id # <<>>
    THEN <<[headers |-> rec.headers, id |-> rec.id[1], sent |-> rec.stream.hdr]>>
    ELSE <<>>

\* obj.SetAttributes(attrs...): obj := p.hdr copied the struct, whose header
\* field is a pointer, so the attributes land in the header p.hdr points to
SetAttributes(prep, attrs) == [prep EXCEPT !.hdr.attrs = attrs]

\* obj := p.hdr, the attribute slice and obj.SetAttributes
PPutBegin(p, headers) ==
    /\ Idle(p)
    /\ prepared # <<>>
    /\ \E attrs \in RangeOrders(headers) :
         /\ prepared' = <<SetAttributes(prepared[1], attrs)>>
         /\ inv' = [inv EXCEPT ![p] =
                [NoInv EXCEPT !.op = "PPut", !.pc = "calcID", !.headers = headers,
                              !.payload = prepared[1].payload,
                              !.bufSize = prepared[1].bufsize,
                              !.id = prepared[1].id, !.sig = prepared[1].sig,
                              !.prev = Previous(inv[p]),
                              !.seen = <<prepared[1].hdr>>]]
    /\ UNCHANGED <<bufsize, tmpl, network, parseOut>>

\* PPutFailed that ignores the error and goes on to put()
PPutFailedGoesOn(rec, err) == EnterPut(rec, <<>>)

\* PreparedObject.Put when CalculateID or CalculateAndSetSignature failed
PPutFailed(rec, err) == Failed(rec, err)

\* id, err := object.CalculateID(&obj); obj.SetID(id)
PPutCalculateID(p, ok) ==
    /\ inv[p].op = "PPut" /\ inv[p].pc = "calcID"
    /\ IF ok
       THEN inv' = [inv EXCEPT ![p] =
                [@ EXCEPT !.id = <<CalculateID(prepared[1].hdr)>>, !.pc = "sign"]]
       ELSE inv' = [inv EXCEPT ![p] = PPutFailed(@, ErrID)]
    /\ UNCHANGED <<bufsize, tmpl, prepared, network, parseOut>>

\* object.CalculateAndSetSignature(p.key, &obj), then the first lines of put()
PPutSign(p, ok) ==
    /\ inv[p].op = "PPut" /\ inv[p].pc = "sign"
    /\ IF ok
       THEN /\ inv' = [inv EXCEPT ![p] =
                   EnterPut([@ EXCEPT !.sig = <<SignatureOf(Key, inv[p].id[1])>>], <<>>)]
       ELSE /\ inv' = [inv EXCEPT ![p] = PPutFailed(@, ErrSig)]
    /\ UNCHANGED <<bufsize, tmpl, prepared, network, parseOut>>

(***************************************************************************)
(* Specifications                                                          *)
(***************************************************************************)
\* the steps of put() and the cancellation of the caller's context
PutSteps(p) ==
    \/ \E ok \in BOOLEAN : ObjectPutInit(p, ok)
    \/ \E ok \in BOOLEAN : WriteHeader(p, ok)
    \/ \E ok \in BOOLEAN : WritePayloadChunk(p, ok)
    \/ \E err \in {ErrNil, ErrStore, ErrCancelled} : ClosePut(p, err)
    \/ Cancel(p)

\* Spec: one caller running SetBufferSize, Client.Put and Client.Get
Next ==
    \/ \E size \in BufferSizes : SetBufferSize(Main, size)
    \/ \E cid \in ContainerInputs, headers \in AttrMaps, payload \in Payloads,
          signOK \in BOOLEAN : PutBegin(Main, cid, headers, payload, signOK)
    \/ PutSteps(Main)
    \/ \E cid \in ContainerInputs, oid \in ObjectInputs, signOK \in BOOLEAN :
          GetBegin(Main, cid, oid, signOK)
    \/ \E ok \in BOOLEAN, served \in 0..MaxPayloadLen : ObjectGetInit(Main, ok, served)
    \/ \E ok \in BOOLEAN : ReadHeader(Main, ok)
    \/ \E ok \in BOOLEAN : Read(Main, ok)
    \/ \E err \in {ErrNil, ErrStore, ErrCancelled} : CloseGet(Main, err)

Spec == Init /\ [][Next]_vars

\* SpecOnsite: one caller running SetBufferSize, Client.Onsite and
\* PreparedObject.Put
NextOnsite ==
    \/ \E size \in OnsiteBufferSizes : SetBufferSize(Main, size)
    \/ \E cid \in ContainerInputs, payload \in Payloads : Onsite(Main, cid, payload)
    \/ \E headers \in AttrMaps : PPutBegin(Main, headers)
    \/ \E ok \in BOOLEAN : PPutCalculateID(Main, ok)
    \/ \E ok \in BOOLEAN : PPutSign(Main, ok)
    \/ PutSteps(Main)

SpecOnsite == Init /\ [][NextOnsite]_vars

\* SpecMixed: caller main runs Client.Put and Client.Get while caller other
\* runs one PreparedObject.Put on the object main prepared, their steps
\* interleaved
NextMixed ==
    \/ prepared = <<>> /\ SetBufferSize(Main, 1)
    \/ \E payload \in Payloads : prepared = <<>> /\ Onsite(Main, "c1", payload)
    \/ \E payload \in Payloads : PutBegin(Main, "c1", {}, payload, TRUE)
    \/ GetBegin(Main, "c1", "o1", TRUE)
    \/ \E ok \in BOOLEAN, served \in 0..MaxPayloadLen : ObjectGetInit(Main, ok, served)
    \/ \E ok \in BOOLEAN : ReadHeader(Main, ok)
    \/ \E ok \in BOOLEAN : Read(Main, ok)
    \/ \E err \in {ErrNil, ErrStore} : CloseGet(Main, err)
    \/ \E headers \in AttrMaps :
          inv["other"].op # "PPut" /\ PPutBegin("other", headers)
    \/ \E ok \in BOOLEAN : PPutCalculateID("other", ok)
    \/ \E ok \in BOOLEAN : PPutSign("other", ok)
    \/ \E p \in Procs, ok \in BOOLEAN : ObjectPutInit(p, ok)
    \/ \E p \in Procs, ok \in BOOLEAN : WriteHeader(p, ok)
    \/ \E p \in Procs, ok \in BOOLEAN : WritePayloadChunk(p, ok)
    \/ \E p \in Procs, err \in {ErrNil, ErrStore} : ClosePut(p, err)

SpecMixed == Init /\ [][NextMixed]_vars

\* SpecParse: parseNetworkInfo applied to every parameter list of the bounds
InitParse ==
    /\ bufsize = 0
    /\ tmpl = BaseToken
    /\ prepared = <<>>
    /\ inv = [p \in Procs |-> NoInv]
    /\ \E params \in ParamLists :
          network = [err |-> ErrNil, epoch |-> 7, params |-> params]
    /\ parseOut = <<>>

ParseNetworkInfo ==
    /\ parseOut = <<>>
    /\ parseOut' = <<parseNetworkInfo(network)>>
    /\ UNCHANGED <<bufsize, tmpl, prepared, inv, network>>

NextParse == ParseNetworkInfo

SpecParse == InitParse /\ [][NextParse]_vars

\* SpecLive: Spec with the calls on an open PUT stream returning: the SDK's
\* WritePayloadChunk returns to put() in every case, with true or false
SpecLive ==
    Spec /\ WF_vars(\E ok \in BOOLEAN : WritePayloadChunk(Main, ok))

\* SpecConcurrent: Client.Onsite prepares one object, then each of two callers
\* runs one PreparedObject.Put on it, their steps interleaved
NextConcurrent ==
    \/ \E size \in OnsiteBufferSizes : prepared = <<>> /\ SetBufferSize(Main, size)
    \/ \E cid \in Containers, payload \in Payloads :
          prepared = <<>> /\ Onsite(Main, cid, payload)
    \/ \E p \in Procs, headers \in AttrMaps :
          inv[p].op # "PPut" /\ PPutBegin(p, headers)
    \/ \E p \in Procs, ok \in BOOLEAN : PPutCalculateID(p, ok)
    \/ \E p \in Procs, ok \in BOOLEAN : PPutSign(p, ok)
    \/ \E p \in Procs, ok \in BOOLEAN : ObjectPutInit(p, ok)
    \/ \E p \in Procs, ok \in BOOLEAN : WriteHeader(p, ok)
    \/ \E p \in Procs, ok \in BOOLEAN : WritePayloadChunk(p, ok)
    \/ \E p \in Procs, err \in {ErrNil, ErrStore} : ClosePut(p, err)

SpecConcurrent == Init /\ [][NextConcurrent]_vars

(***************************************************************************)
(* Properties                                                              *)
(***************************************************************************)
Done(p) == inv[p].pc = "done"

\* how often the invocation reported the metric
NumReports(rec, metric) ==
    Cardinality({i \in DOMAIN rec.reports : rec.reports[i].metric = metric})

\* how often the call was made on the stream of the invocation
NumCalls(rec, events) ==
    Cardinality({i \in DOMAIN rec.stream.log : rec.stream.log[i] \in events})

\* C1: every Client.Put, PreparedObject.Put and Client.Get that returns a
\* failed result has reported its failure counter exactly once, whichever
\* step failed (identity, signature, open, header, chunk, close).
C1_FailureCountedOnce ==
    \A p \in Procs :
        Done(p) /\ inv[p].result.kind = "fail" =>
            /\ InPut(p) => NumReports(inv[p], "objPutFails") = 1
            /\ inv[p].op = "Get" => NumReports(inv[p], "objGetFails") = 1

\* C2: a PUT whose header the store rejected closes the stream, writes no
\* chunk and returns a failed result with an error description, whatever
\* Close returns; no PUT that reported a failure returns success.
C2_RejectedHeaderFails ==
    \A p \in Procs :
        Done(p) /\ InPut(p) =>
            /\ NumCalls(inv[p], {"header-"}) > 0 =>
                  /\ NumCalls(inv[p], {"close"}) = 1
                  /\ inv[p].stream.chunks = <<>>
                  /\ inv[p].result.kind = "fail"
                  /\ inv[p].result.error \notin {"", ErrNil}
            /\ NumReports(inv[p], "objPutFails") > 0 => inv[p].result.kind # "ok"

\* C3: a Get whose header could not be read closes the stream exactly once,
\* reads no chunk and returns a failed result with an error description (it
\* does not abort the caller), whatever Close returns.
C3_UnreadHeaderFails ==
    \A p \in Procs :
        Done(p) /\ inv[p].op = "Get" /\ NumCalls(inv[p], {"header-"}) > 0 =>
            /\ NumCalls(inv[p], {"close"}) = 1
            /\ inv[p].stream.reads = <<>>
            /\ inv[p].result.kind = "fail"
            /\ inv[p].result.error \notin {"", ErrNil}

HasMaxObjectSize(params) ==
    \E i \in DOMAIN params : params[i].key = "MaxObjectSize"

\* C4: parseNetworkInfo returns an error whenever the parameter list holds
\* no MaxObjectSize entry.
C4_MissingMaxObjectSizeIsError ==
    parseOut # <<>> /\ ~HasMaxObjectSize(network.params) => parseOut[1].err # ErrNil

\* C5: Onsite rejects the payload as too large if and only if its length
\* exceeds the resolved maximum object size as an unsigned 64-bit value, and
\* a payload it does not reject for its size yields a prepared object unless
\* the container id is malformed.
C5_TooLargeIffExceeds ==
    \A p \in Procs :
        Done(p) /\ inv[p].op = "Onsite" /\ parseNetworkInfo(network).err = ErrNil =>
            LET max == parseNetworkInfo(network).maxObjSize
                exceeds == U64Less(max, Uint64OfNat(Len(inv[p].payload)))
            IN /\ (inv[p].result.kind = "panic" /\ inv[p].result.error = ErrTooLarge)
                      <=> exceeds
               /\ ~exceeds /\ DecodeString(inv[p].cnr).ok => inv[p].result.kind = "ok"

\* C6: two PreparedObject.Put calls on one prepared object with the same
\* attribute map compute the same identifier, and calls whose attribute maps
\* differ compute different identifiers.
C6_IdentifierDeterministic ==
    \A p \in Procs :
        inv[p].op = "PPut" /\ inv[p].id # <<>> /\ inv[p].prev # <<>> =>
            /\ inv[p].prev[1].headers = inv[p].headers => inv[p].prev[1].id = inv[p].id[1]
            /\ inv[p].prev[1].headers # inv[p].headers => inv[p].prev[1].id # inv[p].id[1]

\* the fields of a header that Onsite computed from the payload and the network
Prepared(hdr) == <<hdr.sha, hdr.size, hdr.epoch, hdr.cnr, hdr.owner>>

\* C7: two PreparedObject.Put calls in sequence on one prepared object with
\* different attribute sets transmit headers with different identifiers and
\* the same checksum, size, epoch, container and owner, and the second call
\* finds none of the first call's attributes, identifier or signature in the
\* prepared header.
C7_SecondPutSeesPreparedHeader ==
    \A p \in Procs :
        inv[p].op = "PPut" /\ inv[p].prev # <<>> =>
            /\ inv[p].seen[1].attrs = <<>>
            /\ prepared[1].id = <<>> /\ prepared[1].sig = <<>>
            /\ inv[p].stream.hdr # <<>> /\ inv[p].prev[1].sent # <<>>
                  /\ inv[p].prev[1].headers # inv[p].headers =>
                  /\ inv[p].stream.hdr[1].id # inv[p].prev[1].sent[1].id
                  /\ Prepared(inv[p].stream.hdr[1].hdr) = Prepared(inv[p].prev[1].sent[1].hdr)

\* the binding a signature covers
Binding(t) == [key |-> Key, verb |-> t.verb, cnr |-> t.cnr, obj |-> t.obj]

\* C8: the session token a Client.Put or Client.Get stream is opened within
\* is bound to the verb and the target of that operation, its signature
\* covers that binding, and the base token template of the Client never
\* changes.
C8_TokenScopedToOperation ==
    /\ tmpl = BaseToken
    /\ \A p \in Procs :
          inv[p].op \in {"Put", "Get"} /\ inv[p].stream.log # <<>> =>
              /\ inv[p].stream.tok # <<>>
              /\ LET t == inv[p].stream.tok[1] IN
                 /\ t.verb = (IF inv[p].op = "Put" THEN "PUT" ELSE "GET")
                 /\ t.cnr = inv[p].cnr
                 /\ t.obj = inv[p].oid
                 /\ t.sig = <<Binding(t)>>

\* a Client.Put on container c2 whose stream was opened within a token
C8_Witness ==
    \E p \in Procs :
        /\ inv[p].op = "Put" /\ inv[p].cnr = "c2" /\ inv[p].result.kind = "ok"
        /\ inv[p].stream.tok # <<>>

\* C9: when a PUT is cancelled after its header was accepted and a chunk
\* write then fails, no chunk write follows that failed write, and the PUT
\* ends with the stream closed once, as the last call on it, a failed result
\* and exactly one report of the PUT failure counter.
C9_CancelledPutFailsOnce ==
    \A p \in Procs :
        InPut(p) =>
            LET log == inv[p].stream.log IN
            \A h, c, k \in DOMAIN log :
                h < c /\ c < k /\ log[h] = "header+" /\ log[c] = "cancel"
                      /\ log[k] = "chunk-" =>
                    /\ \A j \in DOMAIN log : j > k => log[j] \notin {"chunk+", "chunk-"}
                    /\ Done(p) =>
                          /\ log[Len(log)] = "close"
                          /\ NumCalls(inv[p], {"close"}) = 1
                          /\ inv[p].result.kind = "fail"
                          /\ NumReports(inv[p], "objPutFails") = 1

\* a Client.Put cancelled between its first and its second chunk
C9_Witness ==
    \E p \in Procs :
        /\ inv[p].op = "Put" /\ Done(p) /\ inv[p].result.kind = "fail"
        /\ inv[p].stream.log = <<"open", "header+", "chunk+", "cancel", "chunk-", "close">>

\* C10: no PUT stream is open for a payload longer than the maximum object
\* size of the network, on the direct path and on the prepared path.
C10_NoStreamForOversizedPayload ==
    \A p \in Procs :
        InPut(p) /\ inv[p].stream.log # <<>> =>
            \A i \in DOMAIN network.params :
                network.params[i].key = "MaxObjectSize" =>
                    ~U64Less(LittleEndianUint64(CopyTo8(network.params[i].value)),
                             Uint64OfNat(Len(inv[p].payload)))

\* the attributes of a header are exactly the pairs of the attribute map
AttrsAre(attrs, headers) ==
    /\ Len(attrs) = Cardinality(headers)
    /\ {attrs[i] : i \in DOMAIN attrs} = headers

\* C11: in every interleaving of PreparedObject.Put calls on one prepared
\* object, the header a call transmits carries exactly the attributes of that
\* call, the identifier and the signature sent with it were computed over that
\* header, and the identifier the call returns is the identifier of the
\* prepared header with the call's own attributes.
C11_ConcurrentPutsIsolated ==
    \A p \in Procs :
        inv[p].op = "PPut" /\ inv[p].stream.hdr # <<>> =>
            LET sent == inv[p].stream.hdr[1] IN
            /\ AttrsAre(sent.hdr.attrs, inv[p].headers)
            /\ sent.id = <<CalculateID(sent.hdr)>>
            /\ sent.sig = <<SignatureOf(Key, CalculateID(sent.hdr))>>
            /\ inv[p].result.kind = "ok" =>
                  /\ inv[p].result.objectID # <<>>
                  /\ AttrsAre(inv[p].result.objectID[1].over.attrs, inv[p].headers)

\* C12: a SetBufferSize(size) step stores size when size > 0 and the default
\* 65536 when size = 0, and for size < 0 signals an error and leaves the chunk
\* size as it was; a chunk size that is positive stays positive, so after one
\* call that did not fail the chunk size is positive for ever.
C12_SetBufferSize ==
    [][/\ \A p \in Procs :
             inv'[p].op = "SetBufferSize" /\ inv'[p] # inv[p] =>
                 LET size == inv'[p].size IN
                 /\ size > 0 => bufsize' = size /\ inv'[p].result.kind = "ok"
                 /\ size = 0 => bufsize' = 65536 /\ inv'[p].result.kind = "ok"
                 /\ size < 0 => bufsize' = bufsize /\ inv'[p].result.kind = "panic"
                 /\ inv'[p].result.kind = "ok" => bufsize' > 0
       /\ bufsize > 0 => bufsize' > 0]_vars

\* SetBufferSize(-1) failed after SetBufferSize(0) had stored the default
C12_Witness ==
    \E p \in Procs :
        /\ inv[p].op = "SetBufferSize" /\ inv[p].size < 0
        /\ inv[p].result.kind = "panic"
        /\ bufsize = defaultBufferSize

\* the list holds a HomomorphicHashingDisabled entry no boolean can be decoded from
HasUndecodableFlag(params) ==
    \E i \in DOMAIN params :
        /\ params[i].key = "HomomorphicHashingDisabled"
        /\ Len(params[i].value) > 32

\* C13: parseNetworkInfo returns an error for every parameter list that holds
\* a HomomorphicHashingDisabled entry whose value is not decodable as a
\* boolean, wherever the MaxObjectSize entries stand: before it, after it or
\* nowhere.
C13_UndecodableFlagIsError ==
    parseOut # <<>> /\ HasUndecodableFlag(network.params) => parseOut[1].err # ErrNil

\* an undecodable flag followed by a MaxObjectSize entry, parsed to an error
C13_Witness ==
    /\ parseOut # <<>> /\ parseOut[1].err # ErrNil
    /\ \E i, j \in DOMAIN network.params :
          /\ i < j
          /\ network.params[i].key = "HomomorphicHashingDisabled"
          /\ Len(network.params[i].value) > 32
          /\ network.params[j].key = "MaxObjectSize"

\* the calls the program made on the stream: the log without the cancellations
RECURSIVE Calls(_)
Calls(log) ==
    IF log = <<>> THEN <<>>
    ELSE IF log[1] = "cancel" THEN Calls(Tail(log))
    ELSE <<log[1]>> \o Calls(Tail(log))

\* C14: in every PUT, the call that follows a rejected chunk write on the
\* stream is the close call, no chunk write comes after the rejected one, and
\* the PUT does not return before that close.
C14_RejectedChunkStopsStreaming ==
    \A p \in Procs :
        InPut(p) =>
            LET calls == Calls(inv[p].stream.log) IN
            \A k \in DOMAIN calls :
                calls[k] = "chunk-" =>
                    /\ k < Len(calls) => calls[k + 1] = "close"
                    /\ \A j \in DOMAIN calls :
                          j > k => calls[j] \notin {"chunk+", "chunk-"}
                    /\ Done(p) => k < Len(calls)

\* a PUT whose first chunk the stream rejected while more payload remained,
\* closed and returned
C14_Witness ==
    \E p \in Procs :
        /\ InPut(p) /\ Done(p)
        /\ inv[p].bufSize > 0 /\ Len(inv[p].payload) > inv[p].bufSize
        /\ inv[p].stream.log = <<"open", "header+", "chunk-", "close">>

\* the concatenation of a sequence of chunks
RECURSIVE Flatten(_)
Flatten(chunks) ==
    IF chunks = <<>> THEN <<>> ELSE chunks[1] \o Flatten(Tail(chunks))

\* ceil(n / b) for b > 0
Ceil(n, b) == (n + b - 1) \div b

\* the loop of the PUT is over, and the stream took the header and every chunk
AllAccepted(rec) ==
    /\ rec.pc \in {"close", "done"}
    /\ NumCalls(rec, {"header+"}) = 1
    /\ NumCalls(rec, {"chunk-"}) = 0

\* what C15 says of the states of a PUT
ChunksFollowPayload ==
    \A p \in Procs :
        InPut(p) /\ inv[p].bufSize > 0 =>
            LET chunks == inv[p].stream.chunks
                N == Len(inv[p].payload)
                B == inv[p].bufSize
            IN /\ \A i \in DOMAIN chunks : Len(chunks[i]) \in 1..B
               /\ Len(Flatten(chunks)) <= N
               /\ Flatten(chunks) = SubSeq(inv[p].payload, 1, Len(Flatten(chunks)))
               /\ AllAccepted(inv[p]) =>
                     /\ Len(chunks) = Ceil(N, B)
                     /\ Flatten(chunks) = inv[p].payload
                     /\ N = 0 => chunks = <<>>

\* C15: with a positive chunk size B the chunks a PUT wrote are non-empty, at
\* most B bytes long and concatenate to a prefix of the payload; when the
\* header and every chunk were accepted there are ceil(N/B) of them and they
\* concatenate to the whole payload (none for N = 0); and the loop ends.
C15_ChunksCoverPayload ==
    /\ []ChunksFollowPayload
    /\ \A p \in Procs : (InPut(p) /\ inv[p].pc = "chunk") ~> (inv[p].pc # "chunk")

\* a 2-byte payload sent in two accepted chunks of one byte
C15_Witness ==
    \E p \in Procs :
        /\ InPut(p) /\ Done(p) /\ inv[p].bufSize = 1 /\ AllAccepted(inv[p])
        /\ inv[p].stream.chunks = <<<<1>>, <<2>>>>

\* C16: the calls of a PUT or GET on its stream are ordered: one open at
\* most, and first; the header next, once; chunk writes and reads only after
\* an accepted header; the close once and last; and an invocation that opened
\* a stream has closed it when it returns, whatever it returns.
C16_StreamStepsOrdered ==
    \A p \in Procs :
        InPut(p) \/ inv[p].op = "Get" =>
            LET calls == Calls(inv[p].stream.log)
                pos(events) == {i \in DOMAIN calls : calls[i] \in events}
            IN /\ pos({"open"}) \subseteq {1}
               /\ calls # <<>> => calls[1] = "open"
               /\ pos({"header+", "header-"}) \subseteq {2}
               /\ pos({"chunk+", "chunk-", "read"}) # {} =>
                     Len(calls) >= 2 /\ calls[2] = "header+"
               /\ pos({"close"}) \subseteq {Len(calls)}
               /\ Done(p) /\ calls # <<>> => pos({"close"}) = {Len(calls)}
               /\ ~Done(p) => pos({"close"}) = {}

\* a Get that read the header and the payload in two reads, closed and returned
C16_Witness ==
    \E p \in Procs :
        /\ inv[p].op = "Get" /\ Done(p)
        /\ inv[p].stream.log = <<"open", "header+", "read", "read", "close">>

\* the values the invocation reported for the metric, in order
Values(rec, metric) ==
    LET idx == {i \in DOMAIN rec.reports : rec.reports[i].metric = metric} IN
    {rec.reports[i].value : i \in idx}

\* C17: a PUT that ends successfully has reported one bytes-sent value, the
\* number of payload bytes it wrote to the stream as chunks, for every chunk
\* size and also after a rejected chunk write; a PUT that does not end
\* successfully has reported no bytes-sent value.
C17_BytesSentIsBytesWritten ==
    \A p \in Procs :
        InPut(p) /\ Done(p) =>
            IF inv[p].result.kind = "ok"
            THEN /\ NumReports(inv[p], "dataSent") = 1
                 /\ Values(inv[p], "dataSent") = {Len(Flatten(inv[p].stream.chunks))}
            ELSE NumReports(inv[p], "dataSent") = 0

\* C18: in a PreparedObject.Put the identifier is computed over the header
\* with the attributes of the call in it, the signature over that identifier,
\* and the stream is opened only when both exist; a call whose identifier or
\* signature could not be computed opens no stream, sends nothing and returns
\* a failed result that carries the error.
C18_IdentityBeforeStream ==
    \A p \in Procs :
        inv[p].op = "PPut" =>
            /\ inv[p].id # <<>> => AttrsAre(inv[p].id[1].over.attrs, inv[p].headers)
            /\ inv[p].sig # <<>> =>
                  inv[p].id # <<>> /\ inv[p].sig[1] = SignatureOf(Key, inv[p].id[1])
            /\ inv[p].pc = "open" \/ inv[p].stream.log # <<>> =>
                  inv[p].id # <<>> /\ inv[p].sig # <<>>
            /\ Done(p) /\ (inv[p].id = <<>> \/ inv[p].sig = <<>>) =>
                  /\ inv[p].stream.log = <<>>
                  /\ inv[p].stream.chunks = <<>>
                  /\ inv[p].result.kind = "fail"
                  /\ inv[p].result.error \in {ErrID, ErrSig}

\* a PreparedObject.Put with attributes whose signature could not be computed
C18_Witness ==
    \E p \in Procs :
        /\ inv[p].op = "PPut" /\ Done(p) /\ inv[p].headers # {}
        /\ inv[p].id # <<>> /\ inv[p].sig = <<>>
        /\ inv[p].result.error = ErrSig

RECURSIVE Sum(_)
Sum(s) == IF s = <<>> THEN 0 ELSE s[1] + Sum(Tail(s))

\* C19: a Get with a positive chunk size reads at most a buffer at a time,
\* stops at its first zero-length read and reads nothing after it; when it
\* succeeds it has reported as bytes received the sum of the lengths of its
\* reads, which is the length of the payload when the store served all of it.
C19_GetReadsUntilEmpty ==
    \A p \in Procs :
        inv[p].op = "Get" /\ inv[p].bufSize > 0 =>
            LET reads == inv[p].stream.reads IN
            /\ \A i \in DOMAIN reads :
                  /\ reads[i] <= inv[p].bufSize
                  /\ reads[i] = 0 => i = Len(reads)
            /\ inv[p].pc = "gclose" => reads # <<>> /\ reads[Len(reads)] = 0
            /\ inv[p].pc = "gread" => \A i \in DOMAIN reads : reads[i] > 0
            /\ Done(p) /\ inv[p].result.kind = "ok" =>
                  /\ reads # <<>> /\ reads[Len(reads)] = 0
                  /\ NumReports(inv[p], "dataReceived") = 1
                  /\ Values(inv[p], "dataReceived") = {Sum(reads)}
                  /\ inv[p].stream.remaining = 0 =>
                        Values(inv[p], "dataReceived") = {inv[p].stream.served}

\* a Get of a 3-byte payload with a chunk size of 2: reads of 2, 1 and 0 bytes
C19_Witness ==
    \E p \in Procs :
        /\ inv[p].op = "Get" /\ Done(p) /\ inv[p].result.kind = "ok"
        /\ inv[p].bufSize = 2 /\ inv[p].stream.served = 3
        /\ inv[p].stream.reads = <<2, 1, 0>>

\* the positions of the metric in the reports of the invocation
Positions(rec, metric) == {i \in DOMAIN rec.reports : rec.reports[i].metric = metric}

\* what C20 says of one invocation, whose counters are total, fails, duration
CountedInOrder(rec, total, fails, duration) ==
    /\ Cardinality(Positions(rec, total)) <= 1
    /\ Cardinality(Positions(rec, fails)) <= Cardinality(Positions(rec, total))
    /\ \A i \in Positions(rec, fails) : \E j \in Positions(rec, total) : j < i
    /\ rec.stream.log # <<>> => Positions(rec, total) # {}
    /\ Positions(rec, duration) # {} => rec.pc = "done" /\ rec.result.kind = "ok"

\* C20: every Put, PreparedObject.Put and Get counts its attempt at most once
\* and before it opens its stream, counts a failure only after the attempt and
\* not more often, and reports a duration only when it ends successfully; so
\* over the invocations of all callers, however interleaved, the failures of
\* a direction never exceed its attempts.
C20_FailuresWithinAttempts ==
    /\ \A p \in Procs :
          /\ InPut(p) =>
                CountedInOrder(inv[p], "objPutTotal", "objPutFails", "objPutDuration")
          /\ inv[p].op = "Get" =>
                CountedInOrder(inv[p], "objGetTotal", "objGetFails", "objGetDuration")
    /\ \A d \in {<<"objPutFails", "objPutTotal">>, <<"objGetFails", "objGetTotal">>} :
          Sum([i \in 1..2 |-> NumReports(inv[IF i = 1 THEN "main" ELSE "other"], d[1])])
              <= Sum([i \in 1..2 |-> NumReports(inv[IF i = 1 THEN "main" ELSE "other"], d[2])])

\* a Client.Put that failed at its close beside a PreparedObject.Put that
\* succeeded
C20_Witness ==
    /\ inv["main"].op = "Put" /\ Done("main") /\ inv["main"].result.kind = "fail"
    /\ NumReports(inv["main"], "objPutFails") = 1
    /\ NumCalls(inv["main"], {"chunk+"}) > 0
    /\ inv["other"].op = "PPut" /\ Done("other") /\ inv["other"].result.kind = "ok"
    /\ NumReports(inv["other"], "objPutDuration") = 1

====
